---- MODULE Spec2Model ----
(***************************************************************************)
(* SerialCommand (src/SerialCommand.cpp): a line buffer filled byte by     *)
(* byte from a Stream, tokenized in place with strtok_r, filtered by       *)
(* device type and dispatched to registered handlers; replies are sent     *)
(* through the same Stream with a write-enable pin raised around them.     *)
(*                                                                         *)
(* C strings are sequences of characters; a character is a one-letter      *)
(* string.  A pointer into _buffer is the index it points at, NULLP when   *)
(* the pointer is NULL.  The leading underscore of the member names is     *)
(* dropped (buffer is _buffer, bufPos is _bufPos, ...).                    *)
(***************************************************************************)
EXTENDS Integers, Sequences, FiniteSets, TLC

\* ---------------------------------------------------------------- bounds
SERIALCOMMAND_BUFFER == 4   \* capacity of the line buffer (scaled down)
MaxCommands == 2            \* maxCommands handed to the constructor
MaxAvail == 1               \* bytes the port holds before a read
MaxNext == 1                \* next() calls one handler makes
MaxText == 2                \* length of the short texts given to setBuffer
MaxLines == 2               \* lines one session of the dispatcher handles
MaxBurst == 2               \* bytes the port holds in the driving loop

\* ------------------------------------------------------------ characters
NUL == "NUL"                \* '\0'
LF == "LF"                  \* '\n'
CR == "CR"                  \* '\r'
BEL == "BEL"                \* a control character, isprint() is false
Uninit == "?"               \* a buffer cell nothing was ever written to
HIGH == "HIGH"              \* levels of a digital pin
LOW == "LOW"
Letters == {"a"}
Upper == {"A"}              \* the case variant of the letter
Bytes == Letters \cup {" ", LF, BEL}

\* Mutation of isprint: every character passes.
isprintAny(c) == TRUE

\* isprint() of <ctype.h> on the characters of the model: letters and the
\* space.
isprint(c) == c \in Letters \cup Upper \cup {" "}

NULL == <<"NULL">>          \* a NULL char*, where a C string is expected
NULLP == -1                 \* a NULL pointer into buffer
NULLF == "NULLF"            \* a NULL function pointer
Wild == "wild"              \* an indeterminate function pointer
hD == "hD"                  \* the function given to setDefaultHandler
Names == {<<"a">>, <<"a", "a">>}    \* names registered with addCommand
DeviceTypes == {NULL, <<"a">>}      \* deviceType handed to the constructor

\* The function registered by the k-th successful addCommand.
Handler(k) == "h" \o ToString(k)
Handlers == {Handler(k) : k \in 1..MaxCommands}

Cells == 0..SERIALCOMMAND_BUFFER    \* char _buffer[SERIALCOMMAND_BUFFER + 1]

Max(a, b) == IF a >= b THEN a ELSE b

VARIABLES
    buffer,             \* _buffer: the line being assembled / tokenized
    bufPos,             \* _bufPos
    last,               \* _last: the save pointer of strtok_r
    term,               \* _term
    delim,              \* _delim[0]
    commandList,        \* _commandList[0 .. _commandCount-1]
    maxCommands,        \* _maxCommands
    default_command,    \* _default_command
    current_command,    \* _current_command
    device_type,        \* _device_type
    port,               \* bytes waiting in the Stream, oldest first
    crashed,            \* the program hit a fault and stopped
    \* what the last operation did
    op,                 \* its name
    ret,                \* the value readSerial returned
    lastEv,             \* what was done with the last character taken
    nread,              \* how many characters were taken
    wrMax,              \* highest buffer index written, -1 when none
    toks,               \* results of the strtok_r calls, in order
    calls,              \* handlers invoked: function and name they observe
    nullDeref,          \* strcmp was handed a NULL identifier
    \* kept by Spec only
    lines,              \* lines dispatched since construction
    \* kept by SpecFeed only
    fed,                \* bytes read since the buffer was emptied
    \* the transmit side
    pin,                \* level of _writeEnablePin
    wire,               \* what the last operation did to pin and streams
    \* kept by the specifications that need it
    given               \* the arguments of the last operation

prog == <<buffer, bufPos, last, term, delim, commandList, maxCommands,
          default_command, current_command, device_type, port, crashed>>
hist == <<op, ret, lastEv, nread, wrMax, toks, calls, nullDeref>>
side == <<pin, wire, given>>
vars == <<prog, hist, lines, fed, side>>

commandCount == Len(commandList)    \* _commandCount

\* ------------------------------------------------------------- C strings
\* The C string that starts at buffer index i: the characters up to the
\* first NUL.
RECURSIVE CStr(_, _)
CStr(buf, i) ==
    IF i \notin DOMAIN buf \/ buf[i] = NUL THEN <<>>
    ELSE <<buf[i]>> \o CStr(buf, i + 1)

\* Mutation of strcmp: the comparison stops at the end of the shorter
\* string, as strncmp over its length does.
RECURSIVE strcmpPrefix(_, _)
strcmpPrefix(s, t) ==
    IF s = <<>> \/ t = <<>> THEN 0
    ELSE IF Head(s) # Head(t) THEN 1
    ELSE strcmpPrefix(Tail(s), Tail(t))

\* strcmp(): 0 when the strings are equal, non-zero otherwise.
RECURSIVE strcmp(_, _)
strcmp(s, t) ==
    IF s = <<>> \/ t = <<>> THEN (IF s = t THEN 0 ELSE 1)
    ELSE IF Head(s) # Head(t) THEN 1
    ELSE strcmp(Tail(s), Tail(t))

\* strspn(s, delim): index of the first character at or after i that is no
\* delimiter.
RECURSIVE SkipDelims(_, _, _)
SkipDelims(buf, i, d) ==
    IF i \in DOMAIN buf /\ buf[i] = d THEN SkipDelims(buf, i + 1, d) ELSE i

\* strcspn(s, delim): index of the first delimiter or NUL at or after i.
RECURSIVE SkipToken(_, _, _)
SkipToken(buf, i, d) ==
    IF i \in DOMAIN buf /\ buf[i] # d /\ buf[i] # NUL
    THEN SkipToken(buf, i + 1, d) ELSE i

\* Mutation of strtok_r: the leading delimiters are not skipped, so a
\* delimiter at the scan position ends an empty token.
strtok_rNoSkip(buf, s, d) ==
    IF s = NULLP
    THEN [tok |-> NULL, at |-> NULLP, buf |-> buf, save |-> NULLP, wr |-> -1]
    ELSE IF s \notin DOMAIN buf \/ buf[s] = NUL
    THEN [tok |-> NULL, at |-> NULLP, buf |-> buf, save |-> s, wr |-> -1]
    ELSE LET e == SkipToken(buf, s, d) IN
         IF e \notin DOMAIN buf \/ buf[e] = NUL
         THEN [tok |-> CStr(buf, s), at |-> s, buf |-> buf, save |-> e,
               wr |-> -1]
         ELSE [tok |-> CStr([buf EXCEPT ![e] = NUL], s), at |-> s,
               buf |-> [buf EXCEPT ![e] = NUL], save |-> e + 1, wr |-> e]

\* strtok_r(s, delim, &save) with s the index to scan from (for s == NULL
\* the caller passes the save pointer).  tok is the token or NULL, at is
\* where it starts, buf the buffer with the delimiter that ends the token
\* overwritten by NUL, save the new save pointer.
strtok_r(buf, s, d) ==
    LET b == SkipDelims(buf, s, d) IN
    IF s = NULLP
    THEN [tok |-> NULL, at |-> NULLP, buf |-> buf, save |-> NULLP, wr |-> -1]
    ELSE IF b \notin DOMAIN buf \/ buf[b] = NUL
    THEN [tok |-> NULL, at |-> NULLP, buf |-> buf, save |-> b, wr |-> -1]
    ELSE LET e == SkipToken(buf, b, d) IN
         IF e \notin DOMAIN buf \/ buf[e] = NUL
         THEN [tok |-> CStr(buf, b), at |-> b, buf |-> buf, save |-> e,
               wr |-> -1]
         ELSE [tok |-> CStr([buf EXCEPT ![e] = NUL], b), at |-> b,
               buf |-> [buf EXCEPT ![e] = NUL], save |-> e + 1, wr |-> e]

\* ------------------------------------------------------------ the buffer
\* buf[i] = c when i is a cell of the array; a write past the array leaves
\* the array alone (it lands in whatever follows it) and shows in wrMax.
Poke(buf, i, c) == IF i \in DOMAIN buf THEN [buf EXCEPT ![i] = c] ELSE buf

\* A loop over incoming characters works on s = [buf, pos, wr, ev, n]: the
\* buffer, the length, the highest index written, what was done with the
\* last character, and the number of characters taken.

\* _buffer[_bufPos++] = inChar; _buffer[_bufPos] = '\0';
putChar(s, inChar) ==
    [s EXCEPT !.buf = Poke(Poke(s.buf, s.pos, inChar), s.pos + 1, NUL),
              !.pos = s.pos + 1,
              !.wr = Max(s.wr, s.pos + 1),
              !.ev = "stored"]

\* Mutation of hasRoom: the test is off by one.
hasRoomOffByOne(s) == s.pos <= SERIALCOMMAND_BUFFER

\* if (_bufPos < SERIALCOMMAND_BUFFER)
hasRoom(s) == s.pos < SERIALCOMMAND_BUFFER

\* readSerial's else branch of the room test: _bufPos = 0; //clear buffer;
overflowReset(s) == [s EXCEPT !.pos = 0, !.ev = "overflow"]

\* clearBuffer(): _buffer[0] = '\0'; _bufPos = 0;
clearBuffer(s) ==
    [s EXCEPT !.buf = Poke(s.buf, 0, NUL), !.pos = 0, !.wr = Max(s.wr, 0)]

\* The while loop of readSerial over the bytes p the port holds.  ret is
\* the value returned and port what stays unread.
RECURSIVE readLoop(_, _)
readLoop(s, p) ==
    IF p = <<>>
    THEN [st |-> s, ret |-> 0, port |-> <<>>]
    ELSE LET inChar == Head(p)
             t == [s EXCEPT !.n = s.n + 1]
         IN  IF inChar = term
             THEN [st |-> [t EXCEPT !.ev = "term"], ret |-> s.pos,
                   port |-> Tail(p)]
             ELSE IF isprint(inChar)
             THEN IF hasRoom(s)
                  THEN readLoop(putChar(t, inChar), Tail(p))
                  ELSE readLoop(overflowReset(t), Tail(p))
             ELSE readLoop([t EXCEPT !.ev = "dropped"], Tail(p))

\* Mutation of setLoop: a full buffer is reset and the loop goes on, as in
\* readSerial.
RECURSIVE setLoopReset(_, _, _)
setLoopReset(s, text_line, index) ==
    IF index > Len(text_line)
    THEN s
    ELSE LET inChar == text_line[index]
             t == [s EXCEPT !.n = s.n + 1]
         IN  IF inChar = term
             THEN [t EXCEPT !.ev = "term"]
             ELSE IF isprint(inChar)
             THEN IF hasRoom(s)
                  THEN setLoopReset(putChar(t, inChar), text_line, index + 1)
                  ELSE setLoopReset(overflowReset(t), text_line, index + 1)
             ELSE setLoopReset([t EXCEPT !.ev = "dropped"], text_line,
                               index + 1)

\* The while loop of setBuffer over text_line from its character index on.
RECURSIVE setLoop(_, _, _)
setLoop(s, text_line, index) ==
    IF index > Len(text_line)
    THEN s
    ELSE LET inChar == text_line[index]
             t == [s EXCEPT !.n = s.n + 1]
         IN  IF inChar = term
             THEN [t EXCEPT !.ev = "term"]
             ELSE IF isprint(inChar)
             THEN IF hasRoom(s)
                  THEN setLoop(putChar(t, inChar), text_line, index + 1)
                  ELSE [t EXCEPT !.ev = "full"]
             ELSE setLoop([t EXCEPT !.ev = "dropped"], text_line, index + 1)

\* ---------------------------------------------------------- the registry
\* A CommandInfo is [name, function]; name is a pointer: lit is the string
\* literal given at registration, at the index of a token in buffer.
Binding(name, function) ==
    [name |-> [lit |-> name, at |-> NULLP], function |-> function]

\* The string a name pointer reads as.
NameOf(buf, name) == IF name.at # NULLP THEN CStr(buf, name.at) ELSE name.lit

\* Mutation of firstMatch: the loop has no break, the last match wins.
RECURSIVE lastMatch(_, _, _)
lastMatch(list, name, i) ==
    IF i > Len(list) THEN 0
    ELSE LET later == lastMatch(list, name, i + 1) IN
         IF later # 0 THEN later
         ELSE IF strcmp(name, list[i].name.lit) = 0 THEN i
         ELSE 0

\* The for loop of lookupCommandByName: the index of the first binding
\* whose name compares equal, 0 when there is none.
RECURSIVE firstMatch(_, _, _)
firstMatch(list, name, i) ==
    IF i > Len(list) THEN 0
    ELSE IF strcmp(name, list[i].name.lit) = 0 THEN i
    ELSE firstMatch(list, name, i + 1)

\* Mutation of lookupCommandByName: the received name is not stored in the
\* command built from the default handler.
lookupDropsName(cur, list, def, tok, at) ==
    IF tok = NULL THEN cur
    ELSE LET i == firstMatch(list, tok, 1) IN
         IF i # 0 THEN list[i] ELSE def

\* lookupCommandByName(name): the new _current_command.  tok is the token
\* (NULL when name is NULL) and at the buffer index name points to.
lookupCommandByName(cur, list, def, tok, at) ==
    IF tok = NULL THEN cur
    ELSE LET i == firstMatch(list, tok, 1) IN
         IF i # 0 THEN list[i]
         ELSE [function |-> def.function, name |-> [lit |-> NULL, at |-> at]]

\* The n calls of next() a handler makes on the copy of the object it is
\* given: the copy's _last points into the buffer of the original.
RECURSIVE handlerNext(_, _, _, _)
handlerNext(buf, save, n, acc) ==
    IF n = 0 THEN [buf |-> buf, toks |-> acc, wr |-> -1]
    ELSE LET t == strtok_r(buf, save, delim)
             h == handlerNext(t.buf, t.save, n - 1, Append(acc, t.tok))
         IN  [h EXCEPT !.wr = Max(t.wr, h.wr)]

\* strcmp(identifier, _device_type) == 0 with identifier a token.
identifierMatches(identifier, dev) == strcmp(identifier, dev) = 0

\* runCommand(): the handler invoked, if any.  The handler is handed a copy
\* of the object and calls next() n times; name is what it reads through
\* _current_command.name.  _current_command is indeterminate until the
\* first lookup: wild says whether it then reads as "null" or the call
\* through it is a "fault".
runCommand(cur, buf, save, n, wild) ==
    LET none == [buf |-> buf, toks |-> <<>>, calls |-> <<>>, wr |-> -1,
                 fault |-> FALSE]
    IN  IF cur.function = NULLF THEN none
        ELSE IF cur.function = Wild
        THEN [none EXCEPT !.fault = (wild = "fault")]
        ELSE LET h == handlerNext(buf, save, n, <<>>) IN
             [buf |-> h.buf, toks |-> h.toks,
              calls |-> <<[function |-> cur.function,
                           name |-> NameOf(buf, cur.name)]>>,
              wr |-> h.wr, fault |-> FALSE]

\* ------------------------------------------------------- the transmitter
\* A transmission works on t = [pin, ev]: the level of the write-enable
\* pin and the events so far, each [what, val]: a level put on the pin, a
\* delay, a byte written to a stream, a flush of the port.
digitalWrite(t, val) ==
    [pin |-> val, ev |-> Append(t.ev, [what |-> "pin", val |-> val])]

delayMicroseconds(t) ==
    [t EXCEPT !.ev = Append(@, [what |-> "delay", val |-> "500us"])]

\* stream.print(str): the bytes of str, in order.
RECURSIVE print(_, _, _)
print(t, stream, str) ==
    IF str = <<>> THEN t
    ELSE print([t EXCEPT !.ev = Append(@, [what |-> stream,
                                           val |-> Head(str)])],
               stream, Tail(str))

flush(t) == [t EXCEPT !.ev = Append(@, [what |-> "flush", val |-> "port"])]

\* Serial.println(str): the stream is the port when the sketch constructed
\* the object on Serial, another UART otherwise.
println(t, stream, str) == print(t, stream, str \o <<CR, LF>>)

\* Mutation of sendSteps: the pin is released before the port is flushed.
sendStepsEarlyLow(t, message, writeDelimiter, serial) ==
    LET t1 == digitalWrite(t, HIGH)
        t2 == delayMicroseconds(t1)
        t3 == print(t2, "port", message)
        t4 == print(t3, "port", <<writeDelimiter>>)
        t5 == digitalWrite(t4, LOW)
        t6 == flush(t5)
        t7 == delayMicroseconds(t6)
    IN  println(t7, serial, message)

\* The statements of sendData, in order.
sendSteps(t, message, writeDelimiter, serial) ==
    LET t1 == digitalWrite(t, HIGH)
        t2 == delayMicroseconds(t1)
        t3 == print(t2, "port", message)
        t4 == print(t3, "port", <<writeDelimiter>>)
        t5 == flush(t4)
        t6 == delayMicroseconds(t5)
        t7 == digitalWrite(t6, LOW)
    IN  println(t7, serial, message)

\* ------------------------------------------------------------------ Init
\* The state the constructor leaves.  _current_command and the cells of
\* _buffer after the first are not initialized.
Init ==
    /\ buffer = [i \in Cells |-> IF i = 0 THEN NUL ELSE Uninit]
    /\ bufPos = 0
    /\ last = NULLP
    /\ term = LF
    /\ delim = " "
    /\ commandList = <<>>
    /\ maxCommands = MaxCommands
    /\ default_command = Binding(NULL, NULLF)
    /\ current_command = Binding(NULL, Wild)
    /\ device_type \in DeviceTypes
    /\ port = <<>>
    /\ crashed = FALSE
    /\ op = "SerialCommand"
    /\ ret = 0
    /\ lastEv = "none"
    /\ nread = 0
    /\ wrMax = 0
    /\ toks = <<>>
    /\ calls = <<>>
    /\ nullDeref = FALSE
    /\ lines = 0
    /\ fed = [ok |-> TRUE, bytes |-> <<>>]
    /\ pin = LOW
    /\ wire = <<>>
    /\ given = <<>>

\* What an operation that reads no line, or dispatches none, leaves in the
\* record of the last operation.
NoRead == ret' = 0 /\ lastEv' = "none" /\ nread' = 0
NoDispatch == toks' = <<>> /\ calls' = <<>> /\ nullDeref' = FALSE

\* The state a loop over incoming characters starts from.
LoopStart == [buf |-> buffer, pos |-> bufPos, wr |-> -1, ev |-> "none",
              n |-> 0]

\* --------------------------------------------------------------- actions
\* Mutation of addCommand: the count is not tested against _maxCommands.
addCommandNoLimit(name, function) ==
    /\ ~crashed
    /\ commandList' = Append(commandList, Binding(name, function))
    /\ op' = "addCommand"
    /\ wrMax' = -1
    /\ NoRead /\ NoDispatch
    /\ UNCHANGED <<buffer, bufPos, last, term, delim, maxCommands,
                   default_command, current_command, device_type, port,
                   crashed>>

addCommand(name, function) ==
    /\ ~crashed
    /\ commandList' = IF commandCount >= maxCommands THEN commandList
                      ELSE Append(commandList, Binding(name, function))
    /\ op' = "addCommand"
    /\ wrMax' = -1
    /\ NoRead /\ NoDispatch
    /\ UNCHANGED <<buffer, bufPos, last, term, delim, maxCommands,
                   default_command, current_command, device_type, port,
                   crashed>>

setDefaultHandler(function) ==
    /\ ~crashed
    /\ default_command' = [default_command EXCEPT !.function = function]
    /\ op' = "setDefaultHandler"
    /\ wrMax' = -1
    /\ NoRead /\ NoDispatch
    /\ UNCHANGED <<buffer, bufPos, last, term, delim, commandList,
                   maxCommands, current_command, device_type, port,
                   crashed>>

\* readSerial() with arrived the bytes that reached the port since the
\* last call.
readSerial(arrived) ==
    /\ ~crashed
    /\ LET r == readLoop(LoopStart, port \o arrived) IN
           /\ buffer' = r.st.buf
           /\ bufPos' = r.st.pos
           /\ port' = r.port
           /\ ret' = r.ret
           /\ lastEv' = r.st.ev
           /\ nread' = r.st.n
           /\ wrMax' = r.st.wr
    /\ op' = "readSerial"
    /\ NoDispatch
    /\ UNCHANGED <<last, term, delim, commandList, maxCommands,
                   default_command, current_command, device_type, crashed>>

setBuffer(text_line) ==
    /\ ~crashed
    /\ LET s == setLoop(clearBuffer(LoopStart), text_line, 1) IN
           /\ buffer' = s.buf
           /\ bufPos' = s.pos
           /\ lastEv' = s.ev
           /\ nread' = s.n
           /\ wrMax' = s.wr
    /\ op' = "setBuffer"
    /\ ret' = 0
    /\ NoDispatch
    /\ UNCHANGED <<last, term, delim, commandList, maxCommands,
                   default_command, current_command, device_type, port,
                   crashed>>

clearBufferCall ==
    /\ ~crashed
    /\ LET s == clearBuffer(LoopStart) IN
           /\ buffer' = s.buf
           /\ bufPos' = s.pos
           /\ wrMax' = s.wr
    /\ op' = "clearBuffer"
    /\ NoRead /\ NoDispatch
    /\ UNCHANGED <<last, term, delim, commandList, maxCommands,
                   default_command, current_command, device_type, port,
                   crashed>>

\* processCommand().  n is the number of next() calls the handler makes.
\* strcmp(identifier, _device_type) with identifier NULL is undefined: ub
\* is what it does, "fault", "differ" or "equal".
processCommand(n, ub, wild) ==
    /\ ~crashed
    /\ LET name == strtok_r(buffer, 0, delim)
           identifier == strtok_r(name.buf, name.save, delim)
           called == device_type # NULL
           bad == called /\ identifier.tok = NULL
           match == IF ~called THEN FALSE
                    ELSE IF bad THEN ub = "equal"
                    ELSE identifierMatches(identifier.tok, device_type)
           cur == IF match
                  THEN lookupCommandByName(current_command, commandList,
                           default_command, name.tok, name.at)
                  ELSE current_command
           run == IF match
                  THEN runCommand(cur, identifier.buf, identifier.save, n,
                                  wild)
                  ELSE [buf |-> identifier.buf, toks |-> <<>>,
                        calls |-> <<>>, wr |-> -1, fault |-> FALSE]
           fault == (bad /\ ub = "fault") \/ run.fault
           done == clearBuffer([buf |-> run.buf, pos |-> bufPos, wr |-> -1,
                                ev |-> "none", n |-> 0])
           wr == Max(Max(name.wr, identifier.wr), run.wr)
       IN  \* each outcome is taken once: the choices that do not arise
           \* are pinned
           /\ bad \/ ub = "differ"
           /\ (match /\ cur.function = Wild) \/ wild = "null"
           /\ (match /\ cur.function \notin {NULLF, Wild}) \/ n = 0
           /\ last' = identifier.save
           /\ current_command' = cur
           /\ toks' = <<name.tok, identifier.tok>> \o run.toks
           /\ calls' = run.calls
           /\ nullDeref' = bad
           /\ crashed' = fault
           /\ buffer' = IF fault THEN run.buf ELSE done.buf
           /\ bufPos' = IF fault THEN bufPos ELSE done.pos
           /\ wrMax' = IF fault THEN wr ELSE Max(wr, done.wr)
    /\ op' = "processCommand"
    /\ NoRead
    /\ UNCHANGED <<term, delim, commandList, maxCommands, default_command,
                   device_type, port>>

\* matchCommand(): the first token is looked up.
matchCommand ==
    /\ ~crashed
    /\ LET name == strtok_r(buffer, 0, delim) IN
           /\ buffer' = name.buf
           /\ last' = name.save
           /\ current_command' =
                  lookupCommandByName(current_command, commandList,
                      default_command, name.tok, name.at)
           /\ toks' = <<name.tok>>
           /\ wrMax' = name.wr
    /\ calls' = <<>>
    /\ nullDeref' = FALSE
    /\ op' = "matchCommand"
    /\ NoRead
    /\ UNCHANGED <<bufPos, term, delim, commandList, maxCommands,
                   default_command, device_type, port, crashed>>

\* runCommand() called on its own.  The handler works on a copy of the
\* object, so _last stays.  A next() in the handler with _last still NULL
\* hands strtok_r two NULL pointers, which is undefined: ub is what it
\* does, "fault" or "null" (NULL is returned).
runCommandCall(n, wild, ub) ==
    /\ ~crashed
    /\ LET r == runCommand(current_command, buffer, last, n, wild)
           bad == r.calls # <<>> /\ n > 0 /\ last = NULLP
       IN  /\ (current_command.function = Wild) \/ wild = "null"
           /\ (current_command.function \notin {NULLF, Wild}) \/ n = 0
           /\ bad \/ ub = "null"
           /\ buffer' = r.buf
           /\ toks' = r.toks
           /\ calls' = r.calls
           /\ wrMax' = r.wr
           /\ crashed' = (r.fault \/ (bad /\ ub = "fault"))
    /\ nullDeref' = FALSE
    /\ op' = "runCommand"
    /\ NoRead
    /\ UNCHANGED <<bufPos, last, term, delim, commandList, maxCommands,
                   default_command, current_command, device_type, port>>

\* next() called on the object itself.  With _last still NULL strtok_r is
\* handed two NULL pointers: ub as for runCommandCall.
next(ub) ==
    /\ ~crashed
    /\ LET t == strtok_r(buffer, last, delim)
           bad == last = NULLP
       IN  /\ bad \/ ub = "null"
           /\ buffer' = t.buf
           /\ last' = t.save
           /\ toks' = IF bad /\ ub = "fault" THEN <<>> ELSE <<t.tok>>
           /\ wrMax' = t.wr
           /\ crashed' = (bad /\ ub = "fault")
    /\ calls' = <<>>
    /\ nullDeref' = FALSE
    /\ op' = "next"
    /\ NoRead
    /\ UNCHANGED <<bufPos, term, delim, commandList, maxCommands,
                   default_command, current_command, device_type, port>>

\* write(val): the byte goes to the port; the pin is not touched.
write(val) ==
    /\ ~crashed
    /\ wire' = <<[what |-> "port", val |-> val]>>
    /\ pin' = pin
    /\ op' = "write"
    /\ wrMax' = -1
    /\ NoRead /\ NoDispatch
    /\ UNCHANGED prog

\* sendData(message, writeDelimiter).  serial is the stream the global
\* Serial is: "port" when the object was constructed on Serial.
sendData(message, writeDelimiter, serial) ==
    /\ ~crashed
    /\ LET t == sendSteps([pin |-> pin, ev |-> <<>>], message,
                          writeDelimiter, serial) IN
           /\ wire' = t.ev
           /\ pin' = t.pin
    /\ op' = "sendData"
    /\ wrMax' = -1
    /\ NoRead /\ NoDispatch
    /\ UNCHANGED prog

\* ------------------------------------------------------------ the inputs
\* All sequences over S of length at most n.
RECURSIVE SeqsUpTo(_, _)
SeqsUpTo(S, n) ==
    IF n = 0 THEN {<<>>}
    ELSE LET shorter == SeqsUpTo(S, n - 1) IN
         shorter \cup {Append(q, c) : q \in shorter, c \in S}

\* The command lines a caller loads with setBuffer.
Lines == SeqsUpTo(Letters \cup {" "}, SERIALCOMMAND_BUFFER)

\* Texts given to setBuffer: every short text, and lines of printable
\* characters one longer than the buffer holds.
Texts ==
    SeqsUpTo(Bytes, MaxText) \cup
    {[i \in 1..(SERIALCOMMAND_BUFFER + 1) |-> IF i = k THEN " " ELSE "a"] :
        k \in 0..(SERIALCOMMAND_BUFFER + 1)}

Arrivals == SeqsUpTo(Bytes, MaxAvail)

\* The lines looked up with matchCommand: names and their case variants,
\* a line of delimiters, a name with an argument.
MatchLines ==
    SeqsUpTo(Letters \cup Upper, MaxText) \cup {<<" ">>, <<"a", " ", "a">>}

\* The bytes that reach the port between two polls of the driving loop:
\* lines of printable characters, each ended by the terminator.
Bursts == SeqsUpTo(Letters \cup {" ", LF}, MaxBurst)

\* The messages handed to sendData, the empty one among them.
Messages == SeqsUpTo(Bytes, MaxText)

\* -------------------------------------------------------- specifications
\* The dispatcher, as a sketch uses it: setup() registers the commands,
\* then loop() loads and dispatches up to MaxLines lines, never loading a
\* line over one it has not dispatched.
InSetup == op \in {"SerialCommand", "addCommand", "setDefaultHandler"}

Next ==
    \/ \E name \in Names :
           /\ InSetup
           /\ addCommand(name, Handler(commandCount + 1))
           /\ UNCHANGED <<lines, fed, side>>
    \/ \E function \in {NULLF, hD} :
           /\ InSetup
           /\ setDefaultHandler(function)
           /\ UNCHANGED <<lines, fed, side>>
    \/ \E text_line \in Lines :
           /\ lines < MaxLines
           /\ op # "setBuffer"
           /\ setBuffer(text_line)
           /\ UNCHANGED <<lines, fed, side>>
    \/ \E n \in 0..MaxNext, ub \in {"fault", "differ", "equal"},
          wild \in {"null", "fault"} :
           /\ lines < MaxLines
           /\ processCommand(n, ub, wild)
           /\ lines' = lines + 1
           /\ UNCHANGED <<fed, side>>

Spec == Init /\ [][Next]_vars

\* The line buffer: bytes are read from the port, texts are loaded, the
\* buffer is cleared, and tokenized once a terminator was read; no command
\* is registered.
NextLine ==
    \/ \E arrived \in Arrivals :
           /\ Len(port \o arrived) <= MaxAvail
           /\ readSerial(arrived)
           /\ UNCHANGED <<lines, fed, side>>
    \/ \E text_line \in Texts :
           setBuffer(text_line) /\ UNCHANGED <<lines, fed, side>>
    \/ clearBufferCall /\ UNCHANGED <<lines, fed, side>>
    \/ \E ub \in {"fault", "differ", "equal"}, wild \in {"null", "fault"} :
           /\ op = "readSerial" /\ lastEv = "term"
           /\ processCommand(0, ub, wild)
           /\ UNCHANGED <<lines, fed, side>>

SpecLine == Init /\ [][NextLine]_vars

\* The line buffer fed from the port, with the bytes read since the buffer
\* was last emptied kept in fed: ok says the record is kept, which ends
\* with a terminator or with more than SERIALCOMMAND_BUFFER bytes.
Emptied == [ok |-> TRUE, bytes |-> <<>>]
Untracked == [ok |-> FALSE, bytes |-> <<>>]

NextFeed ==
    \/ \E arrived \in Arrivals :
           /\ Len(port \o arrived) <= MaxAvail
           /\ readSerial(arrived)
           /\ fed' = IF /\ fed.ok
                        /\ lastEv' # "term"
                        /\ Len(fed.bytes) + nread' <= SERIALCOMMAND_BUFFER
                     THEN [fed EXCEPT
                              !.bytes = @ \o SubSeq(port \o arrived, 1, nread')]
                     ELSE Untracked
           /\ UNCHANGED <<lines, side>>
    \/ clearBufferCall /\ fed' = Emptied /\ UNCHANGED <<lines, side>>
    \/ \E ub \in {"fault", "differ", "equal"}, wild \in {"null", "fault"} :
           /\ op = "readSerial" /\ lastEv = "term"
           /\ processCommand(0, ub, wild)
           /\ fed' = IF crashed' THEN Untracked ELSE Emptied
           /\ UNCHANGED <<lines, side>>

SpecFeed == Init /\ [][NextFeed]_vars

\* Lookup and run called one by one: setup() registers the commands, then
\* up to MaxLines times a line is loaded, looked up and run.
NextMatch ==
    \/ \E name \in Names :
           /\ InSetup
           /\ addCommand(name, Handler(commandCount + 1))
           /\ UNCHANGED <<lines, fed, side>>
    \/ \E function \in {NULLF, hD} :
           /\ InSetup
           /\ setDefaultHandler(function)
           /\ UNCHANGED <<lines, fed, side>>
    \/ \E text_line \in MatchLines :
           /\ lines < MaxLines
           /\ op \notin {"setBuffer", "matchCommand"}
           /\ setBuffer(text_line)
           /\ UNCHANGED <<lines, fed, side>>
    \/ /\ op = "setBuffer"
       /\ matchCommand
       /\ UNCHANGED <<lines, fed, side>>
    \/ \E n \in 0..MaxNext, wild \in {"null", "fault"},
          ub \in {"null", "fault"} :
           /\ op = "matchCommand"
           /\ runCommandCall(n, wild, ub)
           /\ lines' = lines + 1
           /\ UNCHANGED <<fed, side>>

SpecMatch == Init /\ [][NextMatch]_vars

\* The tokenizer cursor: lines are loaded, tokenized, cleared, and tokens
\* are asked for with next(), in any order; no command is registered.
NextCursor ==
    \/ \E text_line \in Lines :
           /\ op # "setBuffer"
           /\ setBuffer(text_line)
           /\ UNCHANGED <<lines, fed, side>>
    \/ \E ub \in {"fault", "differ", "equal"}, wild \in {"null", "fault"} :
           processCommand(0, ub, wild) /\ UNCHANGED <<lines, fed, side>>
    \/ matchCommand /\ UNCHANGED <<lines, fed, side>>
    \/ clearBufferCall /\ UNCHANGED <<lines, fed, side>>
    \/ \E ub \in {"null", "fault"} :
           next(ub) /\ UNCHANGED <<lines, fed, side>>

SpecCursor == Init /\ [][NextCursor]_vars

\* Lines loaded from texts, one over the other.
NextLoad ==
    \/ \E text_line \in Texts :
           /\ setBuffer(text_line)
           /\ given' = <<text_line>>
           /\ UNCHANGED <<lines, fed, pin, wire>>
    \/ /\ clearBufferCall
       /\ given' = <<>>
       /\ UNCHANGED <<lines, fed, pin, wire>>

SpecLoad == Init /\ [][NextLoad]_vars

\* The driving loop of a sketch: setup() sets the default handler, then
\* loop() polls readSerial() and calls processCommand() after each result
\* other than 0, until MaxLines terminators were read.  given keeps avail,
\* the bytes the port held at the last poll, terms, the terminators read,
\* size, the printable bytes read of the line under way (of the line just
\* ended when ended is true), counted up to SERIALCOMMAND_BUFFER + 1.
LineReady == op = "readSerial" /\ ret # 0

Tracked ==
    IF InSetup THEN [avail |-> <<>>, terms |-> 0, size |-> 0, ended |-> FALSE]
    ELSE given

NextLoop ==
    \/ \E function \in {NULLF, hD} :
           /\ InSetup
           /\ setDefaultHandler(function)
           /\ UNCHANGED <<lines, fed, side>>
    \/ \E arrived \in Bursts :
           /\ ~LineReady
           /\ Tracked.terms < MaxLines
           /\ Len(port \o arrived) <= MaxBurst
           /\ readSerial(arrived)
           /\ LET taken == SubSeq(port \o arrived, 1, nread')
                  printable == Len(SelectSeq(taken, isprint))
                  before == IF Tracked.ended THEN 0 ELSE Tracked.size
                  size == before + printable
              IN  given' = [avail |-> port \o arrived,
                            terms |-> Tracked.terms +
                                      (IF lastEv' = "term" THEN 1 ELSE 0),
                            size |-> IF size > SERIALCOMMAND_BUFFER
                                     THEN SERIALCOMMAND_BUFFER + 1 ELSE size,
                            ended |-> lastEv' = "term"]
           /\ UNCHANGED <<lines, fed, pin, wire>>
    \/ \E n \in 0..MaxNext, ub \in {"fault", "differ", "equal"},
          wild \in {"null", "fault"} :
           /\ LineReady
           /\ processCommand(n, ub, wild)
           /\ lines' = lines + 1
           /\ UNCHANGED <<fed, side>>

SpecLoop == Init /\ [][NextLoop]_vars

\* The registry: any sequence of registrations.
NextReg ==
    \/ \E name \in Names, function \in Handlers :
           /\ addCommand(name, function)
           /\ given' = <<name, function>>
           /\ UNCHANGED <<lines, fed, pin, wire>>
    \/ \E function \in {NULLF, hD} :
           /\ setDefaultHandler(function)
           /\ given' = <<function>>
           /\ UNCHANGED <<lines, fed, pin, wire>>

SpecReg == Init /\ [][NextReg]_vars

\* The transmitter: messages are sent and single bytes written.
NextSend ==
    \/ \E message \in Messages, writeDelimiter \in {LF, " "},
          serial \in {"port", "Serial"} :
           /\ sendData(message, writeDelimiter, serial)
           /\ given' = <<message, writeDelimiter>>
           /\ UNCHANGED <<lines, fed>>
    \/ \E val \in Bytes :
           /\ write(val)
           /\ given' = <<val>>
           /\ UNCHANGED <<lines, fed>>

SpecSend == Init /\ [][NextSend]_vars

\* ================================================================ claims
\* What the claims speak of.  The line a processCommand step is given is
\* the C string in buffer before the step.
Line == CStr(buffer, 0)

\* The maximal non-empty delimiter-free substrings of a line, in order;
\* cur is the one being collected.
RECURSIVE Split(_, _)
Split(line, cur) ==
    LET sofar == IF cur = <<>> THEN <<>> ELSE <<cur>> IN
    IF line = <<>> THEN sofar
    ELSE IF Head(line) = " " THEN sofar \o Split(Tail(line), <<>>)
    ELSE Split(Tail(line), Append(cur, Head(line)))

\* The k-th token of a line, NULL when it has fewer.
TokenAt(line, k) ==
    LET t == Split(line, <<>>) IN IF k <= Len(t) THEN t[k] ELSE NULL

\* The positions of the bindings registered under a name.
RegisteredAt(name) ==
    {i \in 1..Len(commandList) : commandList[i].name.lit = name}

Earliest(S) == CHOOSE i \in S : \A j \in S : i <= j

\* The second token of the line is the configured device type.
Addressed == device_type # NULL /\ TokenAt(Line, 2) = device_type

\* C1: processCommand invokes a handler only if a device type is
\* configured and the second token of the line equals it; otherwise no
\* handler at all is invoked.
C1_OnlyAddressedLinesDispatch ==
    (op = "processCommand" /\ calls # <<>>)
        => (device_type # NULL /\ toks[2] = device_type)

\* C2: a line with fewer than two tokens is a non-match: the absent
\* identifier is not read through, nothing faults, no handler is invoked.
C2_AbsentIdentifierIsNonMatch ==
    (op = "processCommand" /\ toks[2] = NULL)
        => (~nullDeref /\ ~crashed /\ calls = <<>>)

\* C3: when the second token is the device type and the first token is a
\* registered name, processCommand invokes the handler of the (earliest)
\* binding of that name exactly once and no other handler.
C3_RegisteredHandlerRunsOnce ==
    [][(/\ op' = "processCommand"
        /\ Addressed
        /\ RegisteredAt(TokenAt(Line, 1)) # {})
       => calls' =
            <<[function |->
                 commandList[Earliest(RegisteredAt(TokenAt(Line, 1)))].function,
               name |-> TokenAt(Line, 1)]>>]_vars

C3_Witness ==
    /\ op = "processCommand"
    /\ toks[2] = device_type
    /\ Len(calls) = 1
    /\ calls[1].function \in Handlers
    /\ RegisteredAt(toks[1]) # {}

\* C4: when the second token is the device type and the first token is no
\* registered name, the default handler, if set, is invoked exactly once
\* and observes the received name; if none is set no handler runs.
C4_UnknownNameGoesToDefault ==
    [][(/\ op' = "processCommand"
        /\ Addressed
        /\ RegisteredAt(TokenAt(Line, 1)) = {})
       => calls' =
            IF default_command.function # NULLF
            THEN <<[function |-> default_command.function,
                    name |-> TokenAt(Line, 1)]>>
            ELSE <<>>]_vars

C4_Witness ==
    /\ op = "processCommand"
    /\ toks[2] = device_type
    /\ commandList # <<>>
    /\ RegisteredAt(toks[1]) = {}
    /\ calls = <<[function |-> hD, name |-> toks[1]]>>

\* C5: the length stays within 0..SERIALCOMMAND_BUFFER and every write to
\* the buffer falls at an index within 0..SERIALCOMMAND_BUFFER.
C5_BufferBounds ==
    /\ bufPos \in 0..SERIALCOMMAND_BUFFER
    /\ wrMax \in -1..SERIALCOMMAND_BUFFER

C5_Witness ==
    /\ op = "readSerial"
    /\ bufPos = SERIALCOMMAND_BUFFER
    /\ wrMax = SERIALCOMMAND_BUFFER

\* C6: from an empty buffer, after at most SERIALCOMMAND_BUFFER bytes
\* without a terminator the buffer holds the printable ones among them, in
\* order, and bufPos is their number.
IsPrintableByte(c) == c \notin {LF, BEL}

C6_BufferIsPrintableBytesFed ==
    fed.ok =>
        /\ CStr(buffer, 0) = SelectSeq(fed.bytes, IsPrintableByte)
        /\ bufPos = Len(SelectSeq(fed.bytes, IsPrintableByte))

C6_Witness ==
    /\ fed.ok
    /\ Len(fed.bytes) = SERIALCOMMAND_BUFFER
    /\ \E i \in 1..Len(fed.bytes) : fed.bytes[i] = BEL
    /\ bufPos = SERIALCOMMAND_BUFFER - 1

\* C7: a printable byte read while the buffer is full resets the buffer to
\* empty: length zero and the empty string as contents.
C7_OverflowEmptiesBuffer ==
    (op = "readSerial" /\ lastEv = "overflow")
        => (bufPos = 0 /\ CStr(buffer, 0) = <<>>)

\* C8: reading the terminator returns a result other than the 0 returned
\* while no terminator was seen, and leaves contents and length as they
\* were (seen on the calls that read the terminator alone).
C8_TerminatorSignalsLineReady ==
    [][(op' = "readSerial" /\ lastEv' = "term")
       => /\ ret' # 0
          /\ nread' = 1 => (buffer' = buffer /\ bufPos' = bufPos)]_vars

\* C9: every processCommand ends with the buffer cleared: length 0 and
\* empty contents.
C9_ProcessCommandClears ==
    op = "processCommand" => (bufPos = 0 /\ CStr(buffer, 0) = <<>>)

C11_ClearInvalidatesCursor ==
    [][/\ op' \in {"clearBuffer", "processCommand"} /\ ~crashed'
           => (bufPos' = 0 /\ CStr(buffer', 0) = <<>>)
       /\ (/\ op \in {"clearBuffer", "processCommand"}
           /\ ~crashed
           /\ last # NULLP
           /\ op' = "next")
           => toks' = <<NULL>>]_vars

\* The level of the pin when event i of w happens, the pin being at level
\* p before the operation.
RECURSIVE LevelAt(_, _, _)
LevelAt(p, w, i) ==
    IF i <= 1 THEN p
    ELSE IF w[i - 1].what = "pin" THEN w[i - 1].val
    ELSE LevelAt(p, w, i - 1)

PortByte(c) == [what |-> "port", val |-> c]

C13_FullRegistryDropsAddCommand ==
    [][op' = "addCommand"
       => /\ Len(commandList') <= maxCommands
          /\ Len(commandList) >= maxCommands
                => commandList' = commandList]_vars

\* The last addCommand came with the registry full: what it was given is
\* not the last binding.
C13_Witness ==
    /\ op = "addCommand"
    /\ Len(commandList) = maxCommands
    /\ commandList[Len(commandList)] # Binding(given[1], given[2])

\* The binding a name resolves to: the earliest one registered under it,
\* the default handler with the name when there is none.
Resolved(name) ==
    IF RegisteredAt(name) # {}
    THEN [function |-> commandList[Earliest(RegisteredAt(name))].function,
          name |-> name]
    ELSE [function |-> default_command.function, name |-> name]

\* C14: the name looked up resolves to the earliest binding whose name is
\* the very same string (no prefix, no case variant of it), and that one
\* is the handler run.
C14_ExactNameEarliestBinding ==
    [][(/\ op = "matchCommand"
        /\ toks[1] # NULL
        /\ op' = "runCommand")
       => /\ current_command.function = Resolved(toks[1]).function
          /\ NameOf(buffer, current_command.name) = toks[1]
          /\ calls' = IF Resolved(toks[1]).function = NULLF THEN <<>>
                      ELSE <<Resolved(toks[1])>>]_vars

\* Two bindings carry the name looked up; the first one ran.
C14_Witness ==
    /\ op = "runCommand"
    /\ Len(commandList) = 2
    /\ commandList[1].name = commandList[2].name
    /\ calls = <<[function |-> Handler(1), name |-> commandList[1].name.lit]>>

\* The part of a text before its first terminator.
RECURSIVE BeforeTerm(_)
BeforeTerm(text) ==
    IF text = <<>> \/ Head(text) = LF THEN <<>>
    ELSE <<Head(text)>> \o BeforeTerm(Tail(text))

\* The first n elements of a sequence, all of them when it has fewer.
Take(q, n) == SubSeq(q, 1, IF Len(q) < n THEN Len(q) ELSE n)

\* C15: after setBuffer(text) the buffer holds the printable characters of
\* the part of text before its first terminator, in order, cut to the
\* first SERIALCOMMAND_BUFFER of them, whatever it held before.
C15_SetBufferLoadsTruncatedLine ==
    op = "setBuffer" =>
        LET kept == Take(SelectSeq(BeforeTerm(given[1]), IsPrintableByte),
                         SERIALCOMMAND_BUFFER)
        IN  CStr(buffer, 0) = kept /\ bufPos = Len(kept)

\* A text one printable character longer than the buffer holds was loaded.
C15_Witness ==
    /\ op = "setBuffer"
    /\ Len(SelectSeq(given[1], IsPrintableByte)) > SERIALCOMMAND_BUFFER
    /\ bufPos = SERIALCOMMAND_BUFFER
    /\ lastEv = "full"

\* The index of the first terminator among bytes, 0 when there is none.
RECURSIVE FirstTerm(_, _)
FirstTerm(bytes, i) ==
    IF i > Len(bytes) THEN 0
    ELSE IF bytes[i] = LF THEN i
    ELSE FirstTerm(bytes, i + 1)

\* Terminators read for which processCommand has not yet been called.
Pending == IF LineReady THEN 1 ELSE 0

\* C16: readSerial takes the bytes up to the first terminator and leaves
\* the bytes after it in the port; and in the driving loop one line is
\* dispatched for each terminator read.
C16_OneLinePerTerminator ==
    /\ op = "readSerial" =>
          LET t == FirstTerm(given.avail, 1) IN
          /\ nread = (IF t = 0 THEN Len(given.avail) ELSE t)
          /\ port = SubSeq(given.avail, nread + 1, Len(given.avail))
          /\ (lastEv = "term") = (t # 0)
    /\ (~InSetup /\ ~crashed) => lines + Pending = given.terms

\* C17: the terminator that ends a line of more than SERIALCOMMAND_BUFFER
\* printable bytes has no handler invoked (seen on the lines where the
\* identifier handed to strcmp is there).
C17_OversizedLineIsLost ==
    [][(/\ op' = "processCommand"
        /\ given.size > SERIALCOMMAND_BUFFER
        /\ ~nullDeref')
       => calls' = <<>>]_vars

\* C18: after a lookup that found no name token in the line, runCommand
\* invokes no handler.
C18_NoStaleHandler ==
    [][(op = "matchCommand" /\ toks[1] = NULL /\ op' = "runCommand")
       => calls' = <<>>]_vars

\* C19: every byte written to the port is written while the pin is high.
C19_BytesOnlyWhilePinHigh ==
    [][\A i \in 1..Len(wire') :
           wire'[i].what = "port" => LevelAt(pin, wire', i) = HIGH]_vars

====
